---- MODULE Spec2Model ----
(***************************************************************************)
(* A model of wokkel's Multi-User Chat client handler (wokkel/muc.py):     *)
(* the room registry, the Room/roster data model, the pending-request      *)
(* correlator (sendDeferred with its timer), the outbound operations join, *)
(* nick, status and leave, and the inbound presence dispatch.              *)
(*                                                                         *)
(* Python objects that other objects refer to are modelled by identity:    *)
(* a Deferred is the index of its request in reqs, a Room object is the    *)
(* number obj stored in its record.  The code of one handler call is one   *)
(* atomic action (the handler is driven by a single-threaded reactor); the *)
(* variables sent, hooks and raised hold what that one call handed to the  *)
(* stream, which hooks it invoked and which exceptions it raised.          *)
(***************************************************************************)
EXTENDS Integers, Sequences, FiniteSets, TLC

VARIABLES
    rooms,      \* MUCClient.rooms, the class attribute: bare JID -> Room
    reqs,       \* every Deferred made by sendDeferred, with its delayed call
    deferreds,  \* MUCClient._deferreds, the class attribute: list of Deferreds
    observers,  \* per handler: the one-time observers on its xmlstream
    sent,       \* stanzas handed to xmlstream.send by the last call
    hooks,      \* hook invocations made by the last call, in order
    raised      \* exceptions raised (and logged or propagated) by the last call

vars == <<rooms, reqs, deferreds, observers, sent, hooks, raised>>

----------------------------------------------------------------------------
(* Bounds of the model *)

MaxRequests == 2
TickStep == 10
MaxHostRequests == 3
MaxWait == 40

(* Program constants *)

DEFER_TIMEOUT == 30

Handlers == {"A", "B"}
RoomNames == {"test"}
Servers == {"muc.example"}
OwnNicks == {"Nick", "New"}
FromNicks == {"Nick", "New"}
Conditions == {"forbidden", "conflict"}
Shows == {"", "xa"}
CaseNicks == {"Nick", "nick", "NICK", "New", "new"}

----------------------------------------------------------------------------
(* Jabber IDs.  jid.internJID prepares the node and the domain (which      *)
(* lower-cases them) and keeps the resource as given.                      *)

NoRes == ""

Lower(s) ==
    CASE s = "Test" -> "test"
      [] s = "Nick" -> "nick"
      [] s = "NICK" -> "nick"
      [] s = "New"  -> "new"
      [] OTHER      -> s

JID(u, h, r) == [user |-> u, host |-> h, resource |-> r]

NoJID == JID("", "", NoRes)

internJID(u, h, r) == JID(Lower(u), Lower(h), r)

userhost(j) == JID(j.user, j.host, NoRes)

RoomKey(j) == JID(Lower(j.user), Lower(j.host), NoRes)

----------------------------------------------------------------------------
(* Stanzas *)

Stanza(name, frm, to, type, x, code, cond) ==
    [name |-> name, from |-> frm, to |-> to, type |-> type, x |-> x,
     code |-> code, condition |-> cond, show |-> "", status |-> "",
     affiliation |-> "", role |-> ""]

NoStanza == Stanza("", NoJID, NoJID, "", "", "", "")

BasicPresence(to) == Stanza("presence", NoJID, to, "", "muc", "", "")

UnavailablePresence(to) == Stanza("presence", NoJID, to, "unavailable", "", "", "")

\* A groupchat message: body and subject are the text of the child, "" when
\* there is none; delay is the namespace of its delay child, "" when there
\* is none, with the child's stamp and from attributes.
NS_DELAY == "urn:xmpp:delay"
NS_JABBER_DELAY == "jabber:x:delay"

Message(frm, to, body, subject, delay, stamp, delayFrom) ==
    [name |-> "message", from |-> frm, to |-> to, type |-> "groupchat",
     body |-> body, subject |-> subject, delay |-> delay, stamp |-> stamp,
     delayFrom |-> delayFrom]

\* An iq stanza with a query of namespace xmlns holding item children
NS_MUC_ADMIN == "http://jabber.org/protocol/muc#admin"

Item(affiliation, jid, nick, role) ==
    [affiliation |-> affiliation, jid |-> jid, nick |-> nick, role |-> role]

Iq(type, to, xmlns, items) ==
    [name |-> "iq", type |-> type, to |-> to, xmlns |-> xmlns, items |-> items]

\* AdminRequest(xs, method) and AffiliationRequest(xs, method, affiliation)
AdminRequest(method) == Iq(method, NoJID, NS_MUC_ADMIN, << >>)

AffiliationRequest(method, affiliation) ==
    [AdminRequest(method) EXCEPT !.items = <<Item(affiliation, NoJID, "", "")>>]

----------------------------------------------------------------------------
(* Room and User *)

User(nick) ==
    [nick |-> nick, user_jid |-> NoJID, affiliation |-> "none",
     role |-> "none", status |-> "", show |-> ""]

entityId(name, server, nick) == internJID(name, server, nick)

Room(obj, owner, name, server, nick, state) ==
    [obj |-> obj, owner |-> owner, name |-> name, server |-> server,
     nick |-> nick, state |-> state, status |-> "0",
     entity_id |-> entityId(name, server, nick),
     roster |-> [k \in {} |-> User("")]]

inRoster(room, user) == Lower(user.nick) \in DOMAIN room.roster

\* Variant of addUser that keys the roster by the nick as given.
addUser_CaseSensitive(room, user) ==
    [room EXCEPT !.roster =
        [k \in DOMAIN room.roster \cup {user.nick} |->
            IF k = user.nick THEN user ELSE room.roster[k]]]

addUser(room, user) ==
    [room EXCEPT !.roster =
        [k \in DOMAIN room.roster \cup {Lower(user.nick)} |->
            IF k = Lower(user.nick) THEN user ELSE room.roster[k]]]

NoUser == User("")

getUser(room, nick) ==
    IF Lower(nick) \in DOMAIN room.roster THEN room.roster[Lower(nick)] ELSE NoUser

removeUser(room, user) ==
    IF inRoster(room, user)
    THEN [room EXCEPT !.roster =
            [k \in DOMAIN room.roster \ {Lower(user.nick)} |-> room.roster[k]]]
    ELSE room

----------------------------------------------------------------------------
(* The heap one handler call works on.  A call starts from the variables   *)
(* with the logs of the previous call cleared, runs its code as a chain of *)
(* operators from heap to heap, and the action writes the result back.     *)

Heap ==
    [rooms |-> rooms, reqs |-> reqs, deferreds |-> deferreds,
     observers |-> observers, sent |-> << >>, hooks |-> << >>,
     raised |-> << >>]

Raise(S, exc) == [S EXCEPT !.raised = Append(@, exc)]

Send(S, obj) == [S EXCEPT !.sent = Append(@, obj)]

Hook(S, h, name, room, nick) ==
    [S EXCEPT !.hooks = Append(@,
        [hook |-> name, h |-> h, room |-> RoomKey(room.entity_id),
         obj |-> room.obj, owner |-> room.owner, nick |-> nick,
         inRoster |-> Lower(nick) \in DOMAIN S.rooms[RoomKey(room.entity_id)].roster])]

\* The arguments a hook is called with
Arg(kind, obj, jid, text) == [kind |-> kind, obj |-> obj, jid |-> jid, text |-> text]

ArgRoom(room) == Arg("Room", room.obj, NoJID, "")
ArgUser(user) == IF user = NoUser THEN Arg("None", 0, NoJID, "")
                 ELSE Arg("User", 0, NoJID, user.nick)
ArgJID(j) == Arg("JID", 0, j, "")
ArgText(t) == Arg("text", 0, NoJID, t)

\* A call of a message hook; the roster entry of the log is not used
HookArgs(S, h, name, room, args) ==
    [S EXCEPT !.hooks = Append(@,
        [hook |-> name, h |-> h, room |-> RoomKey(room.entity_id),
         obj |-> room.obj, owner |-> room.owner, nick |-> "",
         inRoster |-> FALSE, args |-> args])]

----------------------------------------------------------------------------
(* The room registry: MUCClient.rooms is a class attribute, and _setRoom,  *)
(* _getRoom and _removeRoom reach it through self, so every handler works  *)
(* on the one dictionary.                                                  *)

\* self.rooms and self._deferreds of handler h: no handler ever assigns the
\* attribute, so the lookup ends at the class.
selfRooms(S, h) == S.rooms

selfDeferreds(S, h) == S.deferreds

hasRoom(S, h, room_jid) == RoomKey(room_jid) \in DOMAIN selfRooms(S, h)

getRoom(S, h, room_jid) == selfRooms(S, h)[RoomKey(room_jid)]

setRoom(S, h, room) ==
    [S EXCEPT !.rooms =
        [k \in DOMAIN S.rooms \cup {RoomKey(room.entity_id)} |->
            IF k = RoomKey(room.entity_id) THEN room ELSE S.rooms[k]]]

removeRoom(S, h, room_jid) ==
    IF RoomKey(room_jid) \in DOMAIN S.rooms
    THEN [S EXCEPT !.rooms =
            [k \in DOMAIN S.rooms \ {RoomKey(room_jid)} |-> S.rooms[k]]]
    ELSE S

----------------------------------------------------------------------------
(* Deferreds (twisted.internet.defer.Deferred as sendDeferred uses it).    *)
(* A result is a record; a Room result is a reference to the Room object.  *)

Result(kind, obj, cond) == [kind |-> kind, obj |-> obj, condition |-> cond]

NoResult == Result("", 0, "")
RoomResult(room) == Result("Room", room.obj, "")
NoneResult == Result("None", 0, "")
TrueResult == Result("True", 0, "")
TimeoutError == Result("TimeoutError", 0, "")
PresenceElement(prs) == Result("presence", 0, prs.condition)
StanzaError(cond) == Result("StanzaError", 0, cond)

Pending == [called |-> FALSE, how |-> "", result |-> NoResult]

\* Variant of cancelTimeout that leaves the delayed call alone.
cancelTimeout_LeavesCall(S, d) == S

\* sendDeferred.cancelTimeout, added to the Deferred with addBoth
cancelTimeout(S, d) ==
    IF S.reqs[d].call = "active"
    THEN [S EXCEPT !.reqs[d].call = "cancelled"]
    ELSE S

\* Deferred.callback / Deferred.errback: a second call raises
\* AlreadyCalledError and leaves the result as it is; fired counts the calls.
fire(S, d, how, result) ==
    IF S.reqs[d].d.called
    THEN Raise([S EXCEPT !.reqs[d].fired = @ + 1], "AlreadyCalledError")
    ELSE cancelTimeout(
            [S EXCEPT !.reqs[d].d = [called |-> TRUE, how |-> how, result |-> result],
                      !.reqs[d].fired = @ + 1], d)

callback(S, d, result) == fire(S, d, "callback", result)

\* Variant of errback that drops the failure.
errback_Dropped(S, d, result) == S

errback(S, d, result) == fire(S, d, "errback", result)

----------------------------------------------------------------------------
(* The pending-request correlator: sendDeferred and its timer.             *)

\* The bookkeeping of one request.  op, key, room_jid, nick and old record
\* the operation that made it; age is the time its delayed call, or for a
\* request without one its reply, has been waited for; heard says whether a presence from key has been delivered to
\* the handler since; fired counts the calls of callback/errback.
Request(h, tag, timeout) ==
    [h |-> h, op |-> tag.op, key |-> tag.key, room_jid |-> tag.room_jid,
     nick |-> tag.nick, old |-> tag.old,
     show |-> tag.show, status |-> tag.status,
     d |-> Pending, call |-> "active", timeout |-> timeout, age |-> 0,
     heard |-> FALSE, fired |-> 0]

Tag(op, key, room_jid, nick, old) ==
    [op |-> op, key |-> key, room_jid |-> room_jid, nick |-> nick, old |-> old,
     show |-> "", status |-> ""]

\* Variant of pop that always takes the head of the list.
pop_Head(seq, i) == Tail(seq)

\* list.pop(i), i counted from 0
pop(seq, i) == SubSeq(seq, 1, i) \o SubSeq(seq, i + 2, Len(seq))

\* sendDeferred: d = Deferred(); _deferreds.append(d); callLater(timeout,
\* onTimeout); d.addBoth(cancelTimeout); xmlstream.send(obj); return d
sendDeferred(S, h, obj, timeout, tag) ==
    LET d == Len(S.reqs) + 1
    IN  Send([S EXCEPT !.reqs = Append(@, Request(h, tag, timeout)),
                       !.deferreds = Append(@, d)], obj)

\* sendDeferred.onTimeout: the loop over self._deferreds; pos is the list
\* iterator's position and i the loop's own counter.
RECURSIVE onTimeoutLoop(_, _, _, _)
onTimeoutLoop(S, d, pos, i) ==
    IF pos > Len(S.deferreds)
    THEN S
    ELSE IF S.deferreds[pos] = d
         THEN onTimeoutLoop(
                errback([S EXCEPT !.deferreds = pop(@, i)], d, TimeoutError),
                d, pos + 1, i + 1)
         ELSE onTimeoutLoop(S, d, pos + 1, i + 1)

\* Variant of onTimeout that lets the delayed call pass without failing the
\* deferred.
onTimeout_Silent(S, d) == [S EXCEPT !.reqs[d].call = "called"]

onTimeout(S, d) == onTimeoutLoop([S EXCEPT !.reqs[d].call = "called"], d, 1, 0)

\* xmlstream.addOnetimeObserver(query, fn, 1, *args): the callbacks of one
\* query are kept in a dictionary keyed by fn, so a second registration of
\* the same method for the same query is dropped.
Observer(frm, typ, method, d) ==
    [from |-> frm, typ |-> typ, method |-> method, d |-> d]

addOnetimeObserver(S, h, frm, typ, method, d) ==
    IF \E o \in S.observers[h] :
            o.from = frm /\ o.typ = typ /\ o.method = method
    THEN S
    ELSE [S EXCEPT !.observers[h] = @ \cup {Observer(frm, typ, method, d)}]

----------------------------------------------------------------------------
(* The one-time observers' callbacks *)

isError(prs) == prs.type = "error"

hasMucStatus(prs) == prs.x # "" /\ prs.code # ""

\* Variant of _joinedRoom that fulfils the deferred without marking the
\* room joined.
joinedRoom_StaysJoining(S, h, d, prs) ==
    IF isError(prs)
    THEN errback(S, d, PresenceElement(prs))
    ELSE IF ~hasRoom(S, h, prs.from)
         THEN Raise(S, "Exception: Room Not Found")
         ELSE callback(S, d, RoomResult(getRoom(S, h, prs.from)))

\* MUCClient._joinedRoom(d, prs)
joinedRoom(S, h, d, prs) ==
    IF isError(prs)
    THEN errback(S, d, PresenceElement(prs))
    ELSE IF ~hasRoom(S, h, prs.from)
         THEN Raise(S, "Exception: Room Not Found")
         ELSE LET k  == RoomKey(prs.from)
                  S1 == [S EXCEPT !.rooms[k].state = "joined"]
                  S2 == IF hasMucStatus(prs)
                        THEN [S1 EXCEPT !.rooms[k].status = prs.code]
                        ELSE S1
              IN  callback(S2, d, RoomResult(getRoom(S2, h, prs.from)))

\* Variant of _leftRoom that fulfils the deferred but keeps the room in the
\* registry.
leftRoom_KeepsRoom(S, h, d, prs) ==
    IF isError(prs)
    THEN errback(S, d, PresenceElement(prs))
    ELSE IF ~hasRoom(S, h, prs.from)
         THEN Raise(S, "Exception: Room Not Found")
         ELSE callback(S, d, TrueResult)

\* MUCClient._leftRoom(d, prs)
leftRoom(S, h, d, prs) ==
    IF isError(prs)
    THEN errback(S, d, PresenceElement(prs))
    ELSE IF ~hasRoom(S, h, prs.from)
         THEN Raise(S, "Exception: Room Not Found")
         ELSE callback(removeRoom(S, h, prs.from), d, TrueResult)

\* MUCClient._changed(d, room_jid, prs)
changed(S, h, d, room_jid, prs) ==
    IF hasRoom(S, h, room_jid)
    THEN callback(S, d, RoomResult(getRoom(S, h, room_jid)))
    ELSE callback(S, d, NoneResult)

----------------------------------------------------------------------------
(* The persistent observers' callbacks *)

\* Variant of _userLeavesRoom that calls the hook but keeps the occupant in
\* the roster.
userLeavesRoom_KeepsUser(S, h, room_jid) ==
    IF ~hasRoom(S, h, room_jid)
    THEN S
    ELSE IF room_jid.resource = NoRes
         THEN Raise(S, "AttributeError")
         ELSE LET room == getRoom(S, h, room_jid)
                  key  == Lower(room_jid.resource)
              IN  IF key \notin DOMAIN room.roster
                  THEN S
                  ELSE Hook(S, h, "userLeftRoom", room, room.roster[key].nick)

\* MUCClient._userLeavesRoom(room_jid)
userLeavesRoom(S, h, room_jid) ==
    IF ~hasRoom(S, h, room_jid)
    THEN S
    ELSE IF room_jid.resource = NoRes
         THEN Raise(S, "AttributeError")      \* room.getUser(None): None.lower()
         ELSE LET k    == RoomKey(room_jid)
                  room == getRoom(S, h, room_jid)
                  key  == Lower(room_jid.resource)
              IN  IF key \notin DOMAIN room.roster
                  THEN S
                  ELSE LET user == room.roster[key]
                       IN  Hook([S EXCEPT !.rooms[k] = removeUser(room, user)],
                                h, "userLeftRoom", room, user.nick)

\* MUCClient._onUnavailablePresence(prs) and MUCClient._onPresenceError(prs)
onUnavailablePresence(S, h, prs) ==
    IF prs.from = NoJID THEN S ELSE userLeavesRoom(S, h, prs.from)

onPresenceError(S, h, prs) ==
    IF prs.from = NoJID THEN S ELSE userLeavesRoom(S, h, prs.from)

\* MUCClient._onXPresence(prs)
onXPresence(S, h, prs) ==
    IF prs.from = NoJID
    THEN S
    ELSE IF ~hasRoom(S, h, prs.from)
         THEN S
         ELSE IF prs.from.resource = NoRes
              THEN Raise(S, "AttributeError")
              ELSE LET k    == RoomKey(prs.from)
                       room == getRoom(S, h, prs.from)
                       key  == Lower(prs.from.resource)
                       user == IF key \in DOMAIN room.roster
                               THEN room.roster[key]
                               ELSE User(prs.from.resource)
                   IN  IF inRoster(room, user)
                       THEN IF hasMucStatus(prs)
                            THEN S
                            ELSE Hook(S, h, "userUpdatedStatus", room, user.nick)
                       ELSE Hook([S EXCEPT !.rooms[k] = addUser(room, user)],
                                 h, "userJoinedRoom", room, user.nick)

\* MUCClient._onGroupChat(msg).  MUCClient defines no receivedGroupChat, so
\* looking the hook up on the handler raises AttributeError.
onGroupChat(S, h, msg) ==
    IF msg.from = NoJID
    THEN S
    ELSE IF ~hasRoom(S, h, msg.from)
         THEN S
         ELSE IF msg.from.resource = NoRes
              THEN Raise(S, "AttributeError")  \* room.getUser(None): None.lower()
              ELSE LET room == getRoom(S, h, msg.from)
                       user == getUser(room, msg.from.resource)
                   IN  IF msg.delay \in {NS_DELAY, NS_JABBER_DELAY}
                       THEN HookArgs(S, h, "receivedHistory", room,
                                <<ArgRoom(room), ArgUser(user), ArgText(msg.body),
                                  ArgText(msg.stamp), ArgJID(msg.delayFrom)>>)
                       ELSE Raise(S, "AttributeError: receivedGroupChat")

\* MUCClient._onSubject(msg)
onSubject(S, h, msg) ==
    IF msg.from = NoJID
    THEN S
    ELSE IF ~hasRoom(S, h, msg.from)
         THEN S
         ELSE HookArgs(S, h, "receivedSubject", getRoom(S, h, msg.from),
                       <<ArgJID(msg.from), ArgText(msg.subject)>>)

\* The stream hands a groupchat message to the GROUPCHAT observer when it
\* has a body and to the SUBJECT observer when it has a subject; both have
\* priority 0, and which of the two queries is visited first is the order
\* of a dictionary: subjectFirst picks it.
dispatchMessage(S, h, msg, subjectFirst) ==
    LET G(T) == IF msg.body # "" THEN onGroupChat(T, h, msg) ELSE T
        U(T) == IF msg.subject # "" THEN onSubject(T, h, msg) ELSE T
    IN  IF subjectFirst THEN G(U(S)) ELSE U(G(S))

----------------------------------------------------------------------------
(* Inbound dispatch.  connectionInitialized registers the three presence   *)
(* observers with priority 0; the one-time observers of join, nick, status *)
(* and leave have priority 1 and so run first.  The stream catches and     *)
(* logs what an observer raises, and drops a one-time observer after its   *)
(* call either way.  The order in which the stream visits two queries of   *)
(* one priority is the order of a dictionary: leaveFirst picks it.         *)

matches(o, prs) ==
    /\ prs.from # NoJID
    /\ o.from = prs.from
    /\ (o.typ = "unavailable" => prs.type = "unavailable")

\* Variant of runObserver that leaves the observer registered after its
\* call.
runObserver_Stays(S, h, o, prs) ==
    CASE o.method = "_joinedRoom" -> joinedRoom(S, h, o.d, prs)
      [] o.method = "_leftRoom"   -> leftRoom(S, h, o.d, prs)
      [] o.method = "_changed"    ->
            changed(S, h, o.d, S.reqs[o.d].room_jid, prs)

runObserver(S, h, o, prs) ==
    LET S1 == CASE o.method = "_joinedRoom" -> joinedRoom(S, h, o.d, prs)
                [] o.method = "_leftRoom"   -> leftRoom(S, h, o.d, prs)
                [] o.method = "_changed"    ->
                        changed(S, h, o.d, S.reqs[o.d].room_jid, prs)
    IN  [S1 EXCEPT !.observers[h] = @ \ {o}]

RECURSIVE runObservers(_, _, _, _)
runObservers(S, h, methods, prs) ==
    IF methods = << >>
    THEN S
    ELSE LET found == {o \in S.observers[h] :
                            o.method = Head(methods) /\ matches(o, prs)}
         IN  runObservers(
                IF found = {} THEN S
                ELSE runObserver(S, h, CHOOSE o \in found : TRUE, prs),
                h, Tail(methods), prs)

\* MUCClient.connectionInitialized: the persistent observers
persistentObservers(S, h, prs) ==
    CASE prs.type \in {"", "available"} /\ prs.x # "" -> onXPresence(S, h, prs)
      [] prs.type = "unavailable" -> onUnavailablePresence(S, h, prs)
      [] prs.type = "error" -> onPresenceError(S, h, prs)
      [] OTHER -> S

RECURSIVE hearFrom(_, _, _, _)
hearFrom(S, h, prs, d) ==
    IF d > Len(S.reqs)
    THEN S
    ELSE hearFrom(IF S.reqs[d].h = h /\ prs.from # NoJID /\ S.reqs[d].key = prs.from
                  THEN [S EXCEPT !.reqs[d].heard = TRUE]
                  ELSE S, h, prs, d + 1)

hear(S, h, prs) == hearFrom(S, h, prs, 1)

dispatch(S, h, prs, leaveFirst) ==
    LET order == IF leaveFirst
                 THEN <<"_leftRoom", "_joinedRoom", "_changed">>
                 ELSE <<"_joinedRoom", "_changed", "_leftRoom">>
    IN  persistentObservers(runObservers(hear(S, h, prs), h, order, prs), h, prs)

----------------------------------------------------------------------------
(* Time: the reactor's delayed calls *)

\* A request sent by iq.send() that is still waiting for its reply; the
\* model follows its waiting up to MaxWait.
Waiting(r) == r.call = "none" /\ ~r.d.called /\ r.age < MaxWait

RECURSIVE age(_, _, _)
age(S, dt, d) ==
    IF d > Len(S.reqs)
    THEN S
    ELSE age(IF \/ S.reqs[d].call = "active"
                \/ Waiting(S.reqs[d])
             THEN [S EXCEPT !.reqs[d].age = @ + dt]
             ELSE S, dt, d + 1)

RECURSIVE runDue(_, _)
runDue(S, d) ==
    IF d > Len(S.reqs)
    THEN S
    ELSE runDue(IF S.reqs[d].call = "active" /\ S.reqs[d].age >= S.reqs[d].timeout
                THEN onTimeout(S, d)
                ELSE S, d + 1)

advance(S, dt) == runDue(age(S, dt, 1), 1)

----------------------------------------------------------------------------
(* The outbound operations *)

\* The stream during xmlstream.send(obj): over a transport that answers at
\* once the reply is dispatched before send returns; NoStanza when nothing
\* arrives meanwhile.
answered(S, h, reply) ==
    IF reply = NoStanza THEN S ELSE dispatch(S, h, reply, FALSE)

\* MUCClient.join(server, room, nick), with the reply that arrives while
\* sendDeferred is sending: the observer is added after sendDeferred has
\* returned.
joinAnswered(S, h, server, room, nick, reply) ==
    LET d  == Len(S.reqs) + 1
        r  == Room(d, h, room, server, nick, "joining")
        S1 == setRoom(S, h, r)
        S2 == sendDeferred(S1, h, BasicPresence(r.entity_id), DEFER_TIMEOUT,
                           Tag("join", r.entity_id, NoJID, nick, ""))
        S3 == answered(S2, h, reply)
    IN  addOnetimeObserver(S3, h, r.entity_id, "any", "_joinedRoom", d)

\* MUCClient.join(server, room, nick)
join(S, h, server, room, nick) == joinAnswered(S, h, server, room, nick, NoStanza)

\* Variant of nick that requests the change but leaves the Room's nick as
\* it was.
nick_KeepsNick(S, h, room_jid, new_nick) ==
    IF ~hasRoom(S, h, room_jid)
    THEN Raise(S, "Exception: Room not found")
    ELSE LET d  == Len(S.reqs) + 1
             r  == getRoom(S, h, room_jid)
             e  == entityId(r.name, r.server, new_nick)
             S2 == sendDeferred(S, h, BasicPresence(e), DEFER_TIMEOUT,
                                Tag("nick", e, room_jid, new_nick, r.nick))
         IN  addOnetimeObserver(S2, h, e, "any", "_changed", d)

\* Variant of nick that sets the Room's nick and sends the presence without
\* storing the new occupant JID in the Room.
nick_StaleEntity(S, h, room_jid, new_nick) ==
    IF ~hasRoom(S, h, room_jid)
    THEN Raise(S, "Exception: Room not found")
    ELSE LET d  == Len(S.reqs) + 1
             k  == RoomKey(room_jid)
             r  == getRoom(S, h, room_jid)
             e  == entityId(r.name, r.server, new_nick)
             S1 == [S EXCEPT !.rooms[k].nick = new_nick]
             S2 == sendDeferred(S1, h, BasicPresence(e), DEFER_TIMEOUT,
                                Tag("nick", e, room_jid, new_nick, r.nick))
         IN  addOnetimeObserver(S2, h, e, "any", "_changed", d)

\* MUCClient.nick(room_jid, new_nick)
nick(S, h, room_jid, new_nick) ==
    IF ~hasRoom(S, h, room_jid)
    THEN Raise(S, "Exception: Room not found")
    ELSE LET d  == Len(S.reqs) + 1
             k  == RoomKey(room_jid)
             r  == getRoom(S, h, room_jid)
             e  == entityId(r.name, r.server, new_nick)
             S1 == [S EXCEPT !.rooms[k].nick = new_nick,
                             !.rooms[k].entity_id = e]
             S2 == sendDeferred(S1, h, BasicPresence(e), DEFER_TIMEOUT,
                                Tag("nick", e, room_jid, new_nick, r.nick))
         IN  addOnetimeObserver(S2, h, e, "any", "_changed", d)

\* MUCClient.leave(room_jid)
leave(S, h, room_jid) ==
    IF ~hasRoom(S, h, room_jid)
    THEN Raise(S, "AttributeError")           \* r.entity_id with r None
    ELSE LET d  == Len(S.reqs) + 1
             r  == getRoom(S, h, room_jid)
             S1 == sendDeferred(S, h, UnavailablePresence(r.entity_id),
                                DEFER_TIMEOUT,
                                Tag("leave", r.entity_id, NoJID, r.nick, ""))
         IN  addOnetimeObserver(S1, h, r.entity_id, "unavailable", "_leftRoom", d)

\* MUCClient.status(room_jid, show, status)
status(S, h, room_jid, show, text) ==
    IF ~hasRoom(S, h, room_jid)
    THEN Raise(S, "Exception: Room not found")
    ELSE LET d  == Len(S.reqs) + 1
             k  == RoomKey(room_jid)
             r  == getRoom(S, h, room_jid)
             e  == entityId(r.name, r.server, r.nick)
             S1 == [S EXCEPT !.rooms[k].entity_id = e]
             p  == [BasicPresence(e) EXCEPT !.show = show, !.status = text]
             S2 == sendDeferred(S1, h, p, DEFER_TIMEOUT,
                                [Tag("status", e, room_jid, r.nick, "")
                                    EXCEPT !.show = show, !.status = text])
         IN  addOnetimeObserver(S2, h, e, "any", "_changed", d)

\* iq.send(): the stanza goes out and the deferred of the request is
\* returned; it has no delayed call and is not kept in _deferreds.
iqSend(S, h, iq, tag) ==
    Send([S EXCEPT !.reqs = Append(@, [Request(h, tag, 0) EXCEPT !.call = "none"])],
         iq)

\* MUCClient.getMemberList(room_jid)
getMemberList(S, h, room_jid) ==
    iqSend(S, h, [AffiliationRequest("get", "member") EXCEPT !.to = room_jid],
           Tag("getMemberList", NoJID, room_jid, "", ""))

\* ConfigureRequest(xs, method, fields) and RegisterRequest(xs, method,
\* fields): with method 'set' the query gets a submit form.  The form's
\* element is made and added before the loop adds the fields to the form
\* object, so the element that goes out has none of them.
NS_MUC_OWNER == "http://jabber.org/protocol/muc#owner"
NS_MUC_CONFIG == "http://jabber.org/protocol/muc#roomconfig"
NS_MUC_REGISTER == "http://jabber.org/protocol/muc#register"
NS_REQUEST == "jabber:iq:register"

Form(type, formNamespace, fields) ==
    [type |-> type, formNamespace |-> formNamespace, fields |-> fields]

FormRequest(method, xmlns, formNamespace, fields) ==
    [name |-> "iq", type |-> method, to |-> NoJID, xmlns |-> xmlns,
     items |-> << >>,
     forms |-> IF method = "set"
               THEN <<Form("submit", formNamespace, << >>)>>
               ELSE << >>]

ConfigureRequest(method, fields) ==
    FormRequest(method, NS_MUC_OWNER, NS_MUC_CONFIG, fields)

RegisterRequest(method, fields) ==
    FormRequest(method, NS_REQUEST, NS_MUC_REGISTER, fields)

\* MUCClient.configure(room_jid, fields)
configure(S, h, room_jid, fields) ==
    iqSend(S, h, [ConfigureRequest("set", fields) EXCEPT !.to = room_jid],
           Tag("configure", NoJID, room_jid, "", ""))

\* MUCClient.getConfigureForm(room_jid)
getConfigureForm(S, h, room_jid) ==
    iqSend(S, h, [ConfigureRequest("get", << >>) EXCEPT !.to = room_jid],
           Tag("getConfigureForm", NoJID, room_jid, "", ""))

\* MUCClient.register(to, fields)
register(S, h, to, fields) ==
    iqSend(S, h, [RegisterRequest("set", fields) EXCEPT !.to = to],
           Tag("register", NoJID, to, "", ""))

\* MUCClient.getRegisterForm(room)
getRegisterForm(S, h, room) ==
    iqSend(S, h, [RegisterRequest("get", << >>) EXCEPT !.to = userhost(room)],
           Tag("getRegisterForm", NoJID, room, "", ""))

\* The iq of ban and kick: an AffiliationRequest of method 'set' naming the
\* occupant, sent to the room's bare JID in the name of frm.
AffiliationSet(affiliation, a_jid, to, frm) ==
    [name |-> "iq", type |-> "set", to |-> userhost(to), from |-> frm,
     xmlns |-> NS_MUC_ADMIN, items |-> <<Item(affiliation, a_jid, "", "")>>]

\* MUCClient.ban(to, ban_jid, frm)
ban(S, h, to, ban_jid, frm) ==
    iqSend(S, h, AffiliationSet("outcast", ban_jid, to, frm),
           Tag("ban", NoJID, to, "", ""))

\* MUCClient.kick(to, kick_jid, frm)
kick(S, h, to, kick_jid, frm) ==
    iqSend(S, h, AffiliationSet("none", kick_jid, to, frm),
           Tag("kick", NoJID, to, "", ""))

\* The result of an iq request arrives: the stream fires the deferred of
\* iq.send() with the response element.
IqResult(d) == Result("iq", d, "")

iqResponse(S, d, response) == callback(S, d, IqResult(d))

\* A point in time, and MUCClient._makeTimeStamp(stamp):
\* stamp.strftime('%Y%m%dT%H:%M:%S')
DateTime(year, month, day, hour, minute, second) ==
    [year |-> year, month |-> month, day |-> day,
     hour |-> hour, minute |-> minute, second |-> second]

Pad2(n) == IF n < 10 THEN "0" \o ToString(n) ELSE ToString(n)

makeTimeStamp(stamp) ==
    ToString(stamp.year) \o Pad2(stamp.month) \o Pad2(stamp.day) \o "T"
        \o Pad2(stamp.hour) \o ":" \o Pad2(stamp.minute) \o ":" \o Pad2(stamp.second)

\* MUCClient.history(to, message_list).  Each m is a message element; the
\* time it was archived at (m.archived) is not part of the element, and the
\* delay is stamped by _makeTimeStamp() without argument: the time now.
RECURSIVE history(_, _, _, _, _)
history(S, h, to, message_list, now) ==
    IF message_list = << >>
    THEN S
    ELSE LET m   == Head(message_list)
             mto == m.to
             out == Message(m.from, to, m.body, "", NS_DELAY,
                            makeTimeStamp(now), mto)
         IN  history(Send(S, out), h, to, Tail(message_list), now)

\* The stanzas of the operations that only send.  GroupChat(to, body,
\* subject) addresses the bare JID of to; PrivateChat(to, body) addresses to
\* as given; InviteMessage drops the type and adds the invite; MessageVoice
\* is a groupchat message with the role request form; PasswordPresence is
\* the join presence with a password.
NS_MUC_REQUEST == "http://jabber.org/protocol/muc#request"

GroupChat(to, body, subject) ==
    Message(NoJID, userhost(to), body, subject, "", "", NoJID)

PrivateChat(to, body) ==
    [Message(NoJID, to, body, "", "", "", NoJID) EXCEPT !.type = "chat"]

InviteMessage(to, reason, full_jid) ==
    [name |-> "message", from |-> NoJID, to |-> to, type |-> "", body |-> "",
     x |-> "muc#user", invite |-> full_jid, reason |-> reason]

MessageVoice(to) ==
    [name |-> "message", from |-> NoJID, to |-> userhost(to),
     type |-> "groupchat", body |-> "", subject |-> "",
     forms |-> <<Form("submit", NS_MUC_REQUEST, <<"muc#role">>)>>]

PasswordPresence(to, password) ==
    [name |-> "presence", from |-> NoJID, to |-> to, type |-> "", x |-> "muc",
     password |-> password]

\* Variant of _sendMessage that sends the message through sendDeferred.
sendMessage_Deferred(S, h, msg) ==
    sendDeferred(S, h, msg, DEFER_TIMEOUT, Tag("message", msg.to, NoJID, "", ""))

\* MUCClient._sendMessage(msg), called without children
sendMessage(S, h, msg) == Send(S, msg)

\* MUCClient.groupChat(to, message)
groupChat(S, h, to, message) == sendMessage(S, h, GroupChat(to, message, ""))

\* MUCClient.chat(to, message)
chat(S, h, to, message) == sendMessage(S, h, PrivateChat(to, message))

\* MUCClient.invite(to, reason, full_jid)
invite(S, h, to, reason, full_jid) ==
    sendMessage(S, h, InviteMessage(to, reason, full_jid))

\* MUCClient.password(to, password)
password(S, h, to, pw) == Send(S, PasswordPresence(to, pw))

\* MUCClient.subject(to, subject)
subject(S, h, to, text) == Send(S, GroupChat(to, "", text))

\* MUCClient.voice(to)
voice(S, h, to) == Send(S, MessageVoice(to))

----------------------------------------------------------------------------
(* The state machine *)

BareJIDs == {JID(r, s, NoRes) : r \in RoomNames, s \in Servers}

InFrom ==
    {JID(r, s, n) : r \in RoomNames, s \in Servers, n \in FromNicks \cup {NoRes}}
        \cup {NoJID}

InPresences ==
    {Stanza("presence", f, NoJID, "", "", "", "") : f \in InFrom}
    \cup {Stanza("presence", f, NoJID, "", "muc#user", c, "") :
            f \in InFrom, c \in {"", "201"}}
    \cup {[Stanza("presence", f, NoJID, "", "muc#user", "", "")
                EXCEPT !.show = w] : f \in InFrom \ {NoJID}, w \in Shows \ {""}}
    \cup {Stanza("presence", f, NoJID, "unavailable", "", "", "") : f \in InFrom}
    \cup {Stanza("presence", f, NoJID, "error", "", "", c) :
            f \in InFrom, c \in Conditions}

Commit(S) ==
    /\ rooms' = S.rooms
    /\ reqs' = S.reqs
    /\ deferreds' = S.deferreds
    /\ observers' = S.observers
    /\ sent' = S.sent
    /\ hooks' = S.hooks
    /\ raised' = S.raised

Init ==
    /\ rooms = [k \in {} |-> Room(0, "A", "", "", "", "")]
    /\ reqs = << >>
    /\ deferreds = << >>
    /\ observers = [h \in Handlers |-> {}]
    /\ sent = << >>
    /\ hooks = << >>
    /\ raised = << >>

JoinOp(h, server, room, n) ==
    /\ Len(reqs) < MaxRequests
    /\ Commit(join(Heap, h, server, room, n))

NickOp(h, room_jid, n) ==
    /\ Len(reqs) < MaxRequests
    /\ Commit(nick(Heap, h, room_jid, n))

LeaveOp(h, room_jid) ==
    /\ Len(reqs) < MaxRequests
    /\ Commit(leave(Heap, h, room_jid))

StatusOp(h, room_jid, show, text) ==
    /\ Len(reqs) < MaxRequests
    /\ Commit(status(Heap, h, room_jid, show, text))

\* The two visiting orders differ only when a leave observer and another
\* one-time observer both match the stanza.
Orders(h, prs) ==
    IF /\ \E o \in observers[h] : o.typ = "unavailable" /\ matches(o, prs)
       /\ \E o \in observers[h] : o.typ = "any" /\ matches(o, prs)
    THEN BOOLEAN
    ELSE {FALSE}

ReceiveOp(h, prs) ==
    \E leaveFirst \in Orders(h, prs) : Commit(dispatch(Heap, h, prs, leaveFirst))

Join(h) == \E server \in Servers, room \in RoomNames, n \in OwnNicks :
                JoinOp(h, server, room, n)

Nick(h) == \E room_jid \in BareJIDs, n \in OwnNicks : NickOp(h, room_jid, n)

Leave(h) == \E room_jid \in BareJIDs : LeaveOp(h, room_jid)

Status(h) == \E room_jid \in BareJIDs, show \in Shows :
                StatusOp(h, room_jid, show, "")

Receive(h) == \E prs \in InPresences : ReceiveOp(h, prs)

Tick ==
    /\ \E d \in DOMAIN reqs : reqs[d].call = "active" \/ Waiting(reqs[d])
    /\ Commit(advance(Heap, TickStep))

Client(h) == Join(h) \/ Nick(h) \/ Leave(h) \/ Status(h) \/ Receive(h)

Next == Client("A") \/ Tick

Spec == Init /\ [][Next]_vars

InMessages ==
    {Message(f, NoJID, b, t, dl, "20020910T23:41:07", NoJID) :
        f \in InFrom, b \in {"", "hello"}, t \in {"", "topic"},
        dl \in {"", NS_DELAY, NS_JABBER_DELAY}}

ReceiveMessageOp(h, msg) ==
    /\ msg.type = "groupchat"
    /\ \E subjectFirst \in (IF msg.body # "" /\ msg.subject # ""
                             THEN BOOLEAN ELSE {FALSE}) :
            Commit(dispatchMessage(Heap, h, msg, subjectFirst))

ReceiveMessage(h) == \E msg \in InMessages : ReceiveMessageOp(h, msg)

\* A host that joins, changes its nick and leaves, with presences and
\* groupchat messages arriving in between; time does not pass.
HostJoin(h) ==
    /\ Len(reqs) < MaxHostRequests
    /\ \E server \in Servers, room \in RoomNames :
            Commit(join(Heap, h, server, room, "Nick"))

HostNick(h) ==
    /\ Len(reqs) < MaxHostRequests
    /\ \E room_jid \in BareJIDs : Commit(nick(Heap, h, room_jid, "New"))

HostLeave(h) ==
    /\ Len(reqs) < MaxHostRequests
    /\ \E room_jid \in BareJIDs : Commit(leave(Heap, h, room_jid))

HostOp(h) == HostJoin(h) \/ HostNick(h) \/ HostLeave(h)

NextHost == HostOp("A") \/ Receive("A") \/ ReceiveMessage("A")

SpecHost == Init /\ [][NextHost]_vars

\* The replies a room gives to the host's own presence: the echo, the
\* unavailable echo and an error, from either nick
ReplyPresences ==
    {Stanza("presence", JID(r, s, n), NoJID, t, "", "", "") :
        r \in RoomNames, s \in Servers, n \in OwnNicks,
        t \in {"", "unavailable"}}
    \cup {Stanza("presence", JID(r, s, n), NoJID, "error", "", "", "forbidden") :
            r \in RoomNames, s \in Servers, n \in OwnNicks}

ReceiveReply(h) == \E prs \in ReplyPresences : ReceiveOp(h, prs)

NextLive ==
    \/ Join("A") \/ Nick("A") \/ Leave("A") \/ Status("A")
    \/ ReceiveReply("A") \/ Tick

\* The reactor runs every delayed call that is due: time does not stop
\* while a timer is armed.
SpecLive == Init /\ [][NextLive]_vars /\ WF_vars(Tick)

\* Member lists a room may answer with
MemberItems ==
    {Item("member", JID("hag66", "shakespeare.lit", NoRes), "thirdwitch", "participant"),
     Item("member", JID("hecate", "shakespeare.lit", NoRes), "hecate", "moderator")}

MemberLists ==
    {<< >>} \cup {<<i>> : i \in MemberItems}
        \cup {<<i, j>> : i \in MemberItems, j \in MemberItems}

GetMemberListOp(h, room_jid) ==
    /\ Len(reqs) < MaxRequests
    /\ Commit(getMemberList(Heap, h, room_jid))

IqResultOp(h, d, items) ==
    /\ reqs[d].h = h
    /\ reqs[d].call = "none"
    /\ ~reqs[d].d.called
    /\ Commit(iqResponse(Heap, d, Iq("result", NoJID, NS_MUC_ADMIN, items)))

GetMemberList(h) == \E room_jid \in BareJIDs : GetMemberListOp(h, room_jid)

ReceiveIq(h) ==
    \E d \in DOMAIN reqs, items \in MemberLists : IqResultOp(h, d, items)

\* A host that joins and asks for the member list
NextQuery ==
    Join("A") \/ Receive("A") \/ GetMemberList("A") \/ ReceiveIq("A")

SpecQuery == Init /\ [][NextQuery]_vars

\* The echoes a room sends back to the host's own presence
EchoPresences ==
    {Stanza("presence", JID(r, s, n), NoJID, "", "", "", "") :
        r \in RoomNames, s \in Servers, n \in OwnNicks}

ReceiveEcho(h) == \E prs \in EchoPresences : ReceiveOp(h, prs)

\* A host with up to MaxHostRequests requests under way while time passes
NextTimers == HostOp("A") \/ ReceiveEcho("A") \/ Tick

SpecTimers == Init /\ [][NextTimers]_vars

\* Room identifiers as a host may spell them
NamedRooms == {"test", "Test"}

JoinNamed(h) ==
    \E server \in Servers, room \in NamedRooms, n \in OwnNicks :
        JoinOp(h, server, room, n)

\* A host that joins rooms under either spelling and changes its nick
NextNames ==
    JoinNamed("A") \/ Nick("A") \/ Leave("A") \/ ReceiveEcho("A")

SpecNames == Init /\ [][NextNames]_vars

\* Presences of occupants with the item of the MUC-user extension: the
\* affiliation and role the room reports, "" when the presence has no item
Affiliations == {"owner", "member"}
Roles == {"moderator", "participant"}

ItemPresences ==
    {[Stanza("presence", JID(r, s, n), NoJID, "", "muc#user", "", "")
        EXCEPT !.affiliation = a, !.role = o] :
        r \in RoomNames, s \in Servers, n \in CaseNicks,
        a \in Affiliations, o \in Roles}
    \cup {Stanza("presence", JID(r, s, n), NoJID, t, x, "", "") :
            r \in RoomNames, s \in Servers, n \in CaseNicks,
            t \in {"", "unavailable"}, x \in {"muc#user"}}

ReceiveItem(h) == \E prs \in ItemPresences : ReceiveOp(h, prs)

\* A host in rooms whose occupants arrive with affiliation and role
NextItems == Join("A") \/ ReceiveItem("A")

SpecItems == Init /\ [][NextItems]_vars

\* A join whose reply arrives while the presence is being sent
JoinAnsweredOp(h, server, room, n, reply) ==
    /\ Len(reqs) < MaxRequests
    /\ reply # NoStanza
    /\ Commit(joinAnswered(Heap, h, server, room, n, reply))

JoinAnswered(h) ==
    \E server \in Servers, room \in RoomNames, n \in OwnNicks,
       reply \in InPresences : JoinAnsweredOp(h, server, room, n, reply)

\* A host on a stream that may answer a join at once
NextAnswered == Join("A") \/ JoinAnswered("A") \/ Receive("A")

SpecAnswered == Init /\ [][NextAnswered]_vars

\* Form fields a host may submit, and the entities it may name
FieldLists == {<< >>, <<"muc#roomconfig_persistentroom">>}

UserJIDs == {JID("hag66", "shakespeare.lit", NoRes)}

ConfigureOp(h, room_jid, fields) ==
    /\ Len(reqs) < MaxRequests
    /\ Commit(configure(Heap, h, room_jid, fields))

GetConfigureFormOp(h, room_jid) ==
    /\ Len(reqs) < MaxRequests
    /\ Commit(getConfigureForm(Heap, h, room_jid))

RegisterOp(h, to, fields) ==
    /\ Len(reqs) < MaxRequests
    /\ Commit(register(Heap, h, to, fields))

GetRegisterFormOp(h, room) ==
    /\ Len(reqs) < MaxRequests
    /\ Commit(getRegisterForm(Heap, h, room))

BanOp(h, to, ban_jid, frm) ==
    /\ Len(reqs) < MaxRequests
    /\ Commit(ban(Heap, h, to, ban_jid, frm))

KickOp(h, to, kick_jid, frm) ==
    /\ Len(reqs) < MaxRequests
    /\ Commit(kick(Heap, h, to, kick_jid, frm))

Configure(h) ==
    \E room_jid \in BareJIDs, fields \in FieldLists : ConfigureOp(h, room_jid, fields)

GetConfigureForm(h) == \E room_jid \in BareJIDs : GetConfigureFormOp(h, room_jid)

Register(h) ==
    \E to \in BareJIDs, fields \in FieldLists : RegisterOp(h, to, fields)

GetRegisterForm(h) == \E room \in BareJIDs : GetRegisterFormOp(h, room)

Ban(h) ==
    \E to \in BareJIDs, ban_jid \in UserJIDs, frm \in UserJIDs :
        BanOp(h, to, ban_jid, frm)

Kick(h) ==
    \E to \in BareJIDs, kick_jid \in UserJIDs, frm \in UserJIDs :
        KickOp(h, to, kick_jid, frm)

\* A host that joins and administers rooms while time passes
NextAdmin ==
    \/ Join("A") \/ GetMemberList("A") \/ Configure("A")
    \/ GetConfigureForm("A") \/ Register("A") \/ GetRegisterForm("A")
    \/ Ban("A") \/ Kick("A") \/ ReceiveIq("A") \/ Tick

SpecAdmin == Init /\ [][NextAdmin]_vars

\* A one-to-one conversation kept in an archive, and the clock
Times == {DateTime(2002, 10, 13, 23, 58, 37), DateTime(2009, 1, 5, 8, 3, 0)}

ArchiveEntry(to, body, archived) ==
    [name |-> "message", from |-> NoJID, to |-> to, type |-> "chat",
     body |-> body, archived |-> archived]

Archive ==
    {ArchiveEntry(JID(u, "example.com", NoRes), b, t) :
        u \in {"testing", "testing2"}, b \in {"test", "yo"}, t \in Times}

Archives ==
    {<<m>> : m \in Archive} \cup {<<m, n>> : m \in Archive, n \in Archive}

HistoryOp(h, to, message_list, now) ==
    /\ now \in Times
    /\ Commit(history(Heap, h, to, message_list, now))

History(h) ==
    \E to \in BareJIDs, message_list \in Archives, now \in Times :
        HistoryOp(h, to, message_list, now)

\* A host that joins and replays an archived conversation into the room
NextHistory == Join("A") \/ History("A")

SpecHistory == Init /\ [][NextHistory]_vars

\* Occupants whose nicks arrive in several letter cases
CasePresences ==
    {Stanza("presence", JID(r, s, n), NoJID, t, x, "", "") :
        r \in RoomNames, s \in Servers, n \in CaseNicks,
        t \in {""}, x \in {"muc#user"}}
    \cup {Stanza("presence", JID(r, s, n), NoJID, "unavailable", "", "", "") :
            r \in RoomNames, s \in Servers, n \in CaseNicks}

ReceiveCase(h) == \E prs \in CasePresences : ReceiveOp(h, prs)

NextRoster == Join("A") \/ ReceiveCase("A")

SpecRoster == Init /\ [][NextRoster]_vars

\* The rooms a host may address, in the registry or not, and what it says
SendTargets == BareJIDs \cup {JID("other", "muc.example", NoRes)}

Texts == {"hello", "bye"}

GroupChatOp(h, to, message) ==
    /\ to \in SendTargets
    /\ Commit(groupChat(Heap, h, to, message))

ChatOp(h, to, message) ==
    /\ to \in SendTargets
    /\ Commit(chat(Heap, h, to, message))

InviteOp(h, to, reason, full_jid) ==
    /\ to \in SendTargets
    /\ Commit(invite(Heap, h, to, reason, full_jid))

PasswordOp(h, to, pw) ==
    /\ to \in SendTargets
    /\ Commit(password(Heap, h, to, pw))

SubjectOp(h, to, text) ==
    /\ to \in SendTargets
    /\ Commit(subject(Heap, h, to, text))

VoiceOp(h, to) ==
    /\ to \in SendTargets
    /\ Commit(voice(Heap, h, to))

\* The six operations that send one stanza
PlainSend(h) ==
    \/ \E to \in SendTargets, message \in Texts : GroupChatOp(h, to, message)
    \/ \E to \in SendTargets, message \in Texts : ChatOp(h, to, message)
    \/ \E to \in SendTargets, reason \in Texts, full_jid \in UserJIDs :
            InviteOp(h, to, reason, full_jid)
    \/ \E to \in SendTargets, pw \in Texts : PasswordOp(h, to, pw)
    \/ \E to \in SendTargets, text \in Texts : SubjectOp(h, to, text)
    \/ \E to \in SendTargets : VoiceOp(h, to)

\* Occupants entering and leaving
OccupantPresences ==
    {Stanza("presence", JID(r, s, n), NoJID, t, "muc#user", "", "") :
        r \in RoomNames, s \in Servers, n \in FromNicks,
        t \in {"", "unavailable"}}

ReceiveOccupant(h) == \E prs \in OccupantPresences : ReceiveOp(h, prs)

\* Two archived conversations, of one and of two messages
ShortArchives ==
    LET m == ArchiveEntry(JID("testing", "example.com", NoRes), "test",
                          DateTime(2002, 10, 13, 23, 58, 37))
        n == ArchiveEntry(JID("testing2", "example.com", NoRes), "yo",
                          DateTime(2009, 1, 5, 8, 3, 0))
    IN  {<<m>>, <<m, n>>}

SendHistory(h) ==
    \E to \in SendTargets, message_list \in ShortArchives, now \in Times :
        HistoryOp(h, to, message_list, now)

\* A host that joins rooms, sees occupants come and go, and talks
NextSend ==
    Join("A") \/ ReceiveOccupant("A") \/ PlainSend("A") \/ SendHistory("A")

SpecSend == Init /\ [][NextSend]_vars

\* Two handlers in one process: the host drives A, and B, which never
\* joins a room, only has stanzas delivered to its own stream.
NextTwo == Client("A") \/ Receive("B") \/ Tick

SpecTwo == Init /\ [][NextTwo]_vars

----------------------------------------------------------------------------
(* What the claims speak of *)

\* The one-time observer of request d is in place on its handler's stream.
Observed(d) == \E o \in observers[reqs[d].h] : o.d = d

\* Request d of operation op is pending: unresolved, and still observed.
PendingOp(d, op) == reqs[d].op = op /\ ~reqs[d].d.called /\ Observed(d)

Available(prs) == prs.type \in {"", "available"}

Fulfilled(d, result) ==
    reqs[d].d = [called |-> TRUE, how |-> "callback", result |-> result]

Failed(d, result) ==
    reqs[d].d = [called |-> TRUE, how |-> "errback", result |-> result]

----------------------------------------------------------------------------
\* C1: join(service, room, nick) registers a Room under room@service in
\* state "joining" and sends one available presence to room@service/nick;
\* when an available presence from exactly room@service/nick is delivered
\* while that join is pending and its Room is the registered one, the join
\* deferred is fulfilled with the registered Room, whose state is "joined".
C1_JoinStep ==
    /\ \A h \in Handlers, server \in Servers, room \in RoomNames, n \in OwnNicks :
        LET k == JID(room, server, NoRes)
            d == Len(reqs')
        IN  \/ /\ k \in DOMAIN rooms'
               /\ rooms'[k].state = "joining"
               /\ rooms'[k].nick = n
               /\ sent' = <<BasicPresence(JID(room, server, n))>>
               /\ d = Len(reqs) + 1
               /\ reqs'[d].d = Pending
            \/ ~JoinOp(h, server, room, n)
    /\ \A d \in DOMAIN reqs, prs \in InPresences :
        ( /\ PendingOp(d, "join")
          /\ reqs[d].key = prs.from
          /\ Available(prs)
          /\ RoomKey(prs.from) \in DOMAIN rooms
          /\ rooms[RoomKey(prs.from)].obj = d ) =>
            LET k == RoomKey(prs.from)
            IN  \/ /\ k \in DOMAIN rooms'
                   /\ rooms'[k].obj = d
                   /\ rooms'[k].state = "joined"
                   /\ reqs'[d].d = [called |-> TRUE, how |-> "callback",
                                    result |-> RoomResult(rooms'[k])]
                \/ ~ReceiveOp(reqs[d].h, prs)

C1_JoinFulfilled == [][C1_JoinStep]_vars

C1_Witness ==
    \E d \in DOMAIN reqs :
        /\ reqs[d].op = "join"
        /\ RoomKey(reqs[d].key) \in DOMAIN rooms
        /\ rooms[RoomKey(reqs[d].key)].state = "joined"
        /\ Fulfilled(d, RoomResult(rooms[RoomKey(reqs[d].key)]))

\* C2: as long as no presence from the occupant JID has been delivered since
\* the join, the join deferred is unresolved while less than DEFER_TIMEOUT
\* (30) time units have elapsed, and is failed with the timeout error (not a
\* stanza error) once 30 have elapsed.
C2_JoinTimeout ==
    \A d \in DOMAIN reqs :
        (reqs[d].op = "join" /\ ~reqs[d].heard) =>
            /\ reqs[d].age < 30 => (~reqs[d].d.called /\ reqs[d].call = "active")
            /\ reqs[d].age >= 30 => Failed(d, TimeoutError)

C2_Witness ==
    \E d \in DOMAIN reqs :
        /\ reqs[d].op = "join"
        /\ ~reqs[d].heard
        /\ reqs[d].age >= 30
        /\ Failed(d, TimeoutError)

\* C3: an error presence from the exact occupant JID, delivered while a join
\* is pending, fails the join deferred with a stanza error carrying the
\* presence's condition; the deferred is not fulfilled and the room does not
\* become "joined".
C3_JoinErrorStep ==
    \A d \in DOMAIN reqs, prs \in InPresences :
        ( /\ PendingOp(d, "join")
          /\ reqs[d].key = prs.from
          /\ prs.type = "error" ) =>
            \/ /\ reqs'[d].d = [called |-> TRUE, how |-> "errback",
                                 result |-> StanzaError(prs.condition)]
               /\ \A k \in DOMAIN rooms' :
                    rooms'[k].obj = d => rooms'[k].state # "joined"
            \/ ~ReceiveOp(reqs[d].h, prs)

C3_JoinErrorIsStanzaError == [][C3_JoinErrorStep]_vars

\* C4: an error presence from the bare room JID, delivered while a join is
\* pending, fails that join deferred exactly as the same error presence from
\* the full occupant JID would, without waiting for the timeout.
C4_BareErrorStep ==
    \A d \in DOMAIN reqs, prs \in InPresences :
        ( /\ PendingOp(d, "join")
          /\ prs.from = userhost(reqs[d].key)
          /\ prs.type = "error" ) =>
            \/ /\ reqs'[d].d.called
               /\ reqs'[d].d.how = "errback"
               /\ reqs'[d].d =
                    dispatch(Heap, reqs[d].h, [prs EXCEPT !.from = reqs[d].key],
                             FALSE).reqs[d].d
            \/ ~ReceiveOp(reqs[d].h, prs)

C4_BareRoomErrorFailsJoin == [][C4_BareErrorStep]_vars

\* C5: for every request sent through the correlator and every interleaving
\* of matching stanzas and timer expiry, the request's deferred is resolved
\* (callback or errback called on it) at most once.
C5_ResolvedAtMostOnce == \A d \in DOMAIN reqs : reqs[d].fired <= 1

\* C6: with two handlers, a room joined through one handler is never
\* returned by a room lookup on the other, the other's pending requests do
\* not hold its requests, and the other's hooks never fire for that room.
C6_HandlersIsolated ==
    /\ \A h \in Handlers, j \in BareJIDs :
            hasRoom(Heap, h, j) => getRoom(Heap, h, j).owner = h
    /\ \A h \in Handlers :
            \A i \in DOMAIN selfDeferreds(Heap, h) :
                reqs[selfDeferreds(Heap, h)[i]].h = h
    /\ \A i \in DOMAIN hooks : hooks[i].owner = hooks[i].h

\* The occupant JID room@service/nick of a Room
Occupant(room) == JID(room.name, room.server, room.nick)

\* C7: for a room in the registry, leave(roomJID) sends one unavailable
\* presence to the room's current occupant JID and leaves the room in the
\* registry; when an unavailable presence from exactly that occupant JID is
\* delivered while the leave is pending, the leave deferred is fulfilled
\* with true and the room is no longer in the registry; and a room only
\* ever goes from the registry in such a delivery.
C7_LeaveStep ==
    /\ \A h \in Handlers, room_jid \in BareJIDs :
        (RoomKey(room_jid) \in DOMAIN rooms) =>
            \/ /\ sent' = <<UnavailablePresence(Occupant(rooms[RoomKey(room_jid)]))>>
               /\ rooms' = rooms
               /\ reqs'[Len(reqs')].d = Pending
            \/ ~LeaveOp(h, room_jid)
    /\ \A d \in DOMAIN reqs, prs \in InPresences :
        ( /\ PendingOp(d, "leave")
          /\ reqs[d].key = prs.from
          /\ prs.type = "unavailable"
          /\ RoomKey(prs.from) \in DOMAIN rooms ) =>
            \/ /\ reqs'[d].d = [called |-> TRUE, how |-> "callback",
                                 result |-> TrueResult]
               /\ RoomKey(prs.from) \notin DOMAIN rooms'
            \/ ~ReceiveOp(reqs[d].h, prs)
    /\ \A k \in DOMAIN rooms :
        k \notin DOMAIN rooms' =>
            \E h \in Handlers, prs \in InPresences :
                /\ prs.type = "unavailable"
                /\ RoomKey(prs.from) = k
                /\ \E o \in observers[h] : o.method = "_leftRoom" /\ o.from = prs.from
                /\ ReceiveOp(h, prs)

C7_LeaveFulfilled == [][C7_LeaveStep]_vars

C7_Witness ==
    \E d \in DOMAIN reqs :
        /\ reqs[d].op = "leave"
        /\ Fulfilled(d, TrueResult)
        /\ RoomKey(reqs[d].key) \notin DOMAIN rooms

\* C8: for a room in the registry, nick(roomJID, newNick) sends one
\* available presence to room@service/newNick and has an observer waiting
\* for a presence from exactly that JID; when an available presence from it
\* is delivered while the request is pending, with no later join or nick
\* request for that room, the deferred is fulfilled with the registered
\* Room, whose nick is newNick.
C8_NickStep ==
    /\ \A h \in Handlers, room_jid \in BareJIDs, n \in OwnNicks :
        (RoomKey(room_jid) \in DOMAIN rooms) =>
            LET r == rooms[RoomKey(room_jid)]
                e == JID(r.name, r.server, n)
            IN  \/ /\ sent' = <<BasicPresence(e)>>
                   /\ reqs'[Len(reqs')].d = Pending
                   /\ \E o \in observers'[h] :
                        o.from = e /\ o.typ = "any" /\ o.method = "_changed"
                \/ ~NickOp(h, room_jid, n)
    /\ \A d \in DOMAIN reqs, prs \in InPresences :
        ( /\ PendingOp(d, "nick")
          /\ reqs[d].key = prs.from
          /\ Available(prs)
          /\ RoomKey(prs.from) \in DOMAIN rooms
          /\ \A d2 \in DOMAIN reqs :
                (d2 > d /\ RoomKey(reqs[d2].key) = RoomKey(reqs[d].key))
                    => reqs[d2].op \notin {"join", "nick"} ) =>
            LET k == RoomKey(prs.from)
            IN  \/ /\ k \in DOMAIN rooms'
                   /\ rooms'[k].nick = reqs[d].nick
                   /\ prs.from = Occupant(rooms'[k])
                   /\ reqs'[d].d = [called |-> TRUE, how |-> "callback",
                                    result |-> RoomResult(rooms'[k])]
                \/ ~ReceiveOp(reqs[d].h, prs)

C8_NickFulfilled == [][C8_NickStep]_vars

C8_Witness ==
    \E d \in DOMAIN reqs :
        /\ reqs[d].op = "nick"
        /\ reqs[d].nick # reqs[d].old
        /\ RoomKey(reqs[d].key) \in DOMAIN rooms
        /\ rooms[RoomKey(reqs[d].key)].nick = reqs[d].nick
        /\ Fulfilled(d, RoomResult(rooms[RoomKey(reqs[d].key)]))

\* C9: an error presence from the awaited occupant address, delivered while
\* a nick change or a status change is pending, fails the deferred with a
\* stanza error carrying the presence's condition; the deferred is never
\* fulfilled with the Room in response to an error presence.
C9_ChangeErrorStep ==
    \A d \in DOMAIN reqs, prs \in InPresences :
        ( /\ PendingOp(d, "nick") \/ PendingOp(d, "status")
          /\ reqs[d].key = prs.from
          /\ prs.type = "error" ) =>
            \/ /\ reqs'[d].d.how # "callback"
               /\ reqs'[d].d = [called |-> TRUE, how |-> "errback",
                                 result |-> StanzaError(prs.condition)]
            \/ ~ReceiveOp(reqs[d].h, prs)

C9_ChangeErrorFails == [][C9_ChangeErrorStep]_vars

\* C10: after a nick change request has failed, the room's recorded nick
\* and its occupant JID are the ones it had before nick() was called (so a
\* later leave addresses the old occupant JID).
C10_FailedNickRestored ==
    \A d \in DOMAIN reqs :
        ( /\ reqs[d].op = "nick"
          /\ d = Len(reqs)
          /\ reqs[d].d.how = "errback"
          /\ RoomKey(reqs[d].key) \in DOMAIN rooms ) =>
            LET r == rooms[RoomKey(reqs[d].key)]
            IN  /\ r.nick = reqs[d].old
                /\ r.entity_id = JID(r.name, r.server, reqs[d].old)

\* C11: for a joined room whose roster holds the caller's own occupant,
\* when the self-echo of a pending status(roomJID, show, status) arrives
\* carrying those show and status values, the deferred is fulfilled with
\* the Room and the own occupant's record in the roster has show and status
\* equal to the echoed values.
C11_StatusStep ==
    \A d \in DOMAIN reqs, prs \in InPresences :
        ( /\ PendingOp(d, "status")
          /\ reqs[d].key = prs.from
          /\ Available(prs) /\ prs.x # ""
          /\ prs.show = reqs[d].show /\ prs.status = reqs[d].status
          /\ RoomKey(prs.from) \in DOMAIN rooms
          /\ rooms[RoomKey(prs.from)].state = "joined"
          /\ Lower(rooms[RoomKey(prs.from)].nick)
                \in DOMAIN rooms[RoomKey(prs.from)].roster ) =>
            LET k   == RoomKey(prs.from)
                own == Lower(rooms[k].nick)
            IN  \/ /\ k \in DOMAIN rooms'
                   /\ reqs'[d].d = [called |-> TRUE, how |-> "callback",
                                    result |-> RoomResult(rooms'[k])]
                   /\ own \in DOMAIN rooms'[k].roster
                   /\ rooms'[k].roster[own].show = prs.show
                   /\ rooms'[k].roster[own].status = prs.status
                \/ ~ReceiveOp(reqs[d].h, prs)

C11_StatusEchoStored == [][C11_StatusStep]_vars

\* An occupant address room@service/nick of a room in the registry
FromOccupant(prs) ==
    /\ prs.from # NoJID
    /\ prs.from.resource # NoRes
    /\ RoomKey(prs.from) \in DOMAIN rooms

\* The nick of prs' sender is in the roster of its room
InRosterOf(prs) == Lower(prs.from.resource) \in DOMAIN rooms[RoomKey(prs.from)].roster

\* The hooks one delivery of prs ran are exactly one call of hook name for
\* the room and nick of prs, the nick being in the roster or not as said.
OneHook(log, h, name, prs, present) ==
    /\ Len(log) = 1
    /\ log[1].hook = name
    /\ log[1].h = h
    /\ log[1].room = RoomKey(prs.from)
    /\ Lower(log[1].nick) = Lower(prs.from.resource)
    /\ log[1].inRoster = present

\* A pending leave of handler h awaits exactly this stanza
OwnLeaveEcho(h, prs) ==
    \E o \in observers[h] : o.method = "_leftRoom" /\ matches(o, prs)

\* What an occupant's arrival does, what their departure does (unless
\* excused), and that the two hooks only ever run for a nick that was
\* absent from, respectively present in, the roster before the stanza.
C12_OccupantStep(excused(_, _)) ==
    /\ \A h \in Handlers, prs \in InPresences :
        ( /\ FromOccupant(prs) /\ Available(prs) /\ prs.x # ""
          /\ ~InRosterOf(prs) ) =>
            \/ /\ OneHook(hooks', h, "userJoinedRoom", prs, TRUE)
               /\ RoomKey(prs.from) \in DOMAIN rooms'
               /\ Lower(prs.from.resource)
                    \in DOMAIN rooms'[RoomKey(prs.from)].roster
            \/ ~ReceiveOp(h, prs)
    /\ \A h \in Handlers, prs \in InPresences :
        ( /\ FromOccupant(prs) /\ prs.type = "unavailable"
          /\ InRosterOf(prs)
          /\ ~excused(h, prs) ) =>
            \/ /\ OneHook(hooks', h, "userLeftRoom", prs, FALSE)
               /\ RoomKey(prs.from) \in DOMAIN rooms'
               /\ Lower(prs.from.resource)
                    \notin DOMAIN rooms'[RoomKey(prs.from)].roster
            \/ ~ReceiveOp(h, prs)
    /\ \A i \in DOMAIN hooks' :
        /\ hooks'[i].hook = "userJoinedRoom" =>
                Lower(hooks'[i].nick) \notin DOMAIN rooms[hooks'[i].room].roster
        /\ hooks'[i].hook = "userLeftRoom" =>
                Lower(hooks'[i].nick) \in DOMAIN rooms[hooks'[i].room].roster

C12_NeverExcused(h, prs) == FALSE

RosterKeysLower ==
    \A k \in DOMAIN rooms :
        /\ \A key \in DOMAIN rooms[k].roster :
                key = Lower(rooms[k].roster[key].nick)
        /\ \A k1, k2 \in DOMAIN rooms[k].roster :
                Lower(rooms[k].roster[k1].nick) = Lower(rooms[k].roster[k2].nick)
                    => k1 = k2

\* Some occupant of the room has nick n in some letter case
HoldsNick(room, n) ==
    \E key \in DOMAIN room.roster : Lower(room.roster[key].nick) = Lower(n)

\* Lookup with any casing finds the occupant added under any other casing
RosterLookupAnyCase ==
    \A k \in DOMAIN rooms, n \in CaseNicks :
        /\ inRoster(rooms[k], User(n)) <=> HoldsNick(rooms[k], n)
        /\ HoldsNick(rooms[k], n) =>
                Lower(getUser(rooms[k], n).nick) = Lower(n)
        /\ ~HoldsNick(rooms[k], n) => getUser(rooms[k], n) = NoUser

\* C13: roster access is case-insensitive in the nick: after every step
\* each roster key is the lower-cased nick of the occupant stored under it
\* and no roster holds two occupants whose nicks differ only in case; a
\* lookup with any casing finds the occupant added under any other casing;
\* an arrival under any casing of a nick already held adds no second
\* occupant, and a departure under any casing removes the occupant.
C13_RosterStep ==
    /\ RosterKeysLower'
    /\ RosterLookupAnyCase'
    /\ \A h \in Handlers, prs \in CasePresences :
        ( /\ FromOccupant(prs)
          /\ HoldsNick(rooms[RoomKey(prs.from)], prs.from.resource)
          /\ ~OwnLeaveEcho(h, prs) ) =>
            LET k == RoomKey(prs.from)
            IN  \/ /\ k \in DOMAIN rooms'
                   /\ prs.type = "unavailable" =>
                        ~HoldsNick(rooms'[k], prs.from.resource)
                   /\ Available(prs) => rooms'[k].roster = rooms[k].roster
                \/ ~ReceiveOp(h, prs)

C13_RosterCaseInsensitive == [][C13_RosterStep]_vars

C13_Witness ==
    \E k \in DOMAIN rooms :
        /\ "nick" \in DOMAIN rooms[k].roster
        /\ rooms[k].roster["nick"].nick = "NICK"
        /\ Len(hooks) = 1
        /\ hooks[1].hook = "userLeftRoom"
        /\ Lower(hooks[1].nick) = "new"

\* The calls of hook name in the log of one delivery
Calls(log, name) == {i \in DOMAIN log : log[i].hook = name}

\* C14: for every groupchat message with a body from an occupant of a
\* registered room exactly one of receivedGroupChat and receivedHistory is
\* called, once: receivedGroupChat(room, occupant, message) when it has no
\* delay child, receivedHistory when it has one in either delay namespace;
\* the registry and the rosters are unchanged.
C14_GroupChatStep ==
    \A h \in Handlers, msg \in InMessages :
        ( /\ msg.body # ""
          /\ FromOccupant(msg) /\ InRosterOf(msg) ) =>
            LET room == rooms[RoomKey(msg.from)]
                user == getUser(room, msg.from.resource)
                chats == Calls(hooks', "receivedGroupChat")
                hist == Calls(hooks', "receivedHistory")
            IN  \/ /\ rooms' = rooms
                   /\ Cardinality(chats) + Cardinality(hist) = 1
                   /\ msg.delay = "" =>
                        \A i \in chats :
                            hooks'[i].args = <<ArgRoom(room), ArgUser(user),
                                               ArgText(msg.body)>>
                   /\ msg.delay # "" =>
                        \A i \in hist :
                            /\ hooks'[i].args[1] = ArgRoom(room)
                            /\ hooks'[i].args[2] = ArgUser(user)
                            /\ hooks'[i].args[3] = ArgText(msg.body)
                   /\ msg.delay = "" <=> hist = {}
                \/ ~ReceiveMessageOp(h, msg)

C14_GroupChatOrHistory == [][C14_GroupChatStep]_vars

\* C15: a groupchat message with a body from the bare JID of a registered
\* room is dispatched without error: receivedGroupChat is called with that
\* room and no occupant.
C15_RoomMessageStep ==
    \A h \in Handlers, msg \in InMessages :
        ( /\ msg.body # "" /\ msg.delay = ""
          /\ msg.from # NoJID /\ msg.from.resource = NoRes
          /\ RoomKey(msg.from) \in DOMAIN rooms ) =>
            \/ /\ raised' = << >>
               /\ \E i \in DOMAIN hooks' :
                    /\ hooks'[i].hook = "receivedGroupChat"
                    /\ hooks'[i].args = <<ArgRoom(rooms[RoomKey(msg.from)]),
                                          ArgUser(NoUser), ArgText(msg.body)>>
            \/ ~ReceiveMessageOp(h, msg)

C15_RoomMessageDispatched == [][C15_RoomMessageStep]_vars

\* C16: a groupchat message with a subject child from an occupant of a
\* registered room calls receivedSubject once with three arguments, the
\* registered Room, the occupant of the sender's nick and the subject text,
\* whether or not the message also has a body.
C16_SubjectStep ==
    \A h \in Handlers, msg \in InMessages :
        ( /\ msg.subject # ""
          /\ FromOccupant(msg) /\ InRosterOf(msg) ) =>
            LET room == rooms[RoomKey(msg.from)]
                user == getUser(room, msg.from.resource)
                subj == Calls(hooks', "receivedSubject")
            IN  \/ /\ Cardinality(subj) = 1
                   /\ \A i \in subj :
                        hooks'[i].args = <<ArgRoom(room), ArgUser(user),
                                           ArgText(msg.subject)>>
                \/ ~ReceiveMessageOp(h, msg)

C16_SubjectHookArguments == [][C16_SubjectStep]_vars

\* The stanza has no from attribute, or its bare from JID is not registered
Unaddressed(stanza) ==
    stanza.from = NoJID \/ RoomKey(stanza.from) \notin DOMAIN rooms

\* Nothing but the logs of the previous delivery changes
Ignored ==
    /\ hooks' = << >>
    /\ raised' = << >>
    /\ rooms' = rooms
    /\ Len(reqs') = Len(reqs)
    /\ \A d \in DOMAIN reqs :
        reqs'[d].d = reqs[d].d /\ reqs'[d].call = reqs[d].call
    /\ observers' = observers
    /\ deferreds' = deferreds

\* C18: an inbound presence or groupchat/subject message that has no from
\* attribute, or whose bare from JID is not in the registry, calls no hook,
\* raises no error and leaves the registry, the rosters and the pending
\* requests unchanged.
C18_UnaddressedStep ==
    /\ \A h \in Handlers, prs \in InPresences :
            Unaddressed(prs) => (Ignored \/ ~ReceiveOp(h, prs))
    /\ \A h \in Handlers, msg \in InMessages :
            Unaddressed(msg) => (Ignored \/ ~ReceiveMessageOp(h, msg))

C18_UnaddressedIgnored == [][C18_UnaddressedStep]_vars

\* A synchronous failure of an operation with the given error: nothing is
\* sent, observed, timed or recorded, and the registry is as it was.
FailsWith(exc) ==
    /\ raised' = <<exc>>
    /\ sent' = << >>
    /\ observers' = observers
    /\ reqs' = reqs
    /\ deferreds' = deferreds
    /\ rooms' = rooms

\* C17: nick, status and leave called with a bare JID that is not in the
\* registry each fail synchronously with a "room not found" error, send no
\* stanza, register no observer, arm no timer, add no pending request and
\* leave the registry unchanged.
C17_UnknownRoomStep ==
    \A h \in Handlers, room_jid \in BareJIDs :
        (RoomKey(room_jid) \notin DOMAIN rooms) =>
            \/ FailsWith("Exception: Room not found")
            \/ /\ \A n \in OwnNicks : ~NickOp(h, room_jid, n)
               /\ \A show \in Shows : ~StatusOp(h, room_jid, show, "")
               /\ ~LeaveOp(h, room_jid)

C17_UnknownRoomFails == [][C17_UnknownRoomStep]_vars

\* The members list of a Room; a Room has none unless one was stored
members(room) == IF "members" \in DOMAIN room THEN room.members ELSE << >>

\* C19: getMemberList(roomJID) for a registered room sends one get-type
\* affiliation request with affiliation member; when the result arrives the
\* deferred is fulfilled with the Room, whose members list holds exactly
\* one occupant per returned item, in order, with the item's affiliation,
\* real JID, nick and role.
C19_MemberListStep ==
    /\ \A h \in Handlers, room_jid \in BareJIDs :
        (RoomKey(room_jid) \in DOMAIN rooms) =>
            \/ sent' = <<[AffiliationRequest("get", "member") EXCEPT !.to = room_jid]>>
            \/ ~GetMemberListOp(h, room_jid)
    /\ \A d \in DOMAIN reqs, items \in MemberLists :
        ( /\ reqs[d].op = "getMemberList"
          /\ RoomKey(reqs[d].room_jid) \in DOMAIN rooms ) =>
            LET k == RoomKey(reqs[d].room_jid)
            IN  \/ /\ k \in DOMAIN rooms'
                   /\ reqs'[d].d = [called |-> TRUE, how |-> "callback",
                                    result |-> RoomResult(rooms'[k])]
                   /\ Len(members(rooms'[k])) = Len(items)
                   /\ \A i \in DOMAIN items :
                        LET m == members(rooms'[k])[i]
                        IN  /\ m.affiliation = items[i].affiliation
                            /\ m.user_jid = items[i].jid
                            /\ m.nick = items[i].nick
                            /\ m.role = items[i].role
                \/ ~IqResultOp(reqs[d].h, d, items)

C19_MemberListStored == [][C19_MemberListStep]_vars

\* C20: history(to, entries) sends exactly one message per archive entry,
\* in the order of the entries; each is of type groupchat, addressed to the
\* room, and carries a delay child whose from is the entry's original
\* recipient and whose stamp is the entry's own timestamp in the form
\* CCYYMMDDThh:mm:ss, not the time of sending.
C20_HistoryStep ==
    \A h \in Handlers, to \in BareJIDs, message_list \in Archives, now \in Times :
        \/ /\ Len(sent') = Len(message_list)
           /\ \A i \in DOMAIN message_list :
                /\ sent'[i].name = "message"
                /\ sent'[i].type = "groupchat"
                /\ sent'[i].to = to
                /\ sent'[i].body = message_list[i].body
                /\ sent'[i].delay \in {NS_DELAY, NS_JABBER_DELAY}
                /\ sent'[i].delayFrom = message_list[i].to
                /\ sent'[i].stamp = makeTimeStamp(message_list[i].archived)
        \/ ~HistoryOp(h, to, message_list, now)

C20_HistoryStamps == [][C20_HistoryStep]_vars

\* The join request that made the Room now registered under key k
JoinOf(k) == rooms[k].obj

\* C21: a room whose join failed, by an error presence or by the timeout,
\* is removed from the registry: a registered room in state "joining" has
\* an unresolved pending join, and once the join deferred has failed the
\* room it made is no longer in the registry.
C21_FailedJoinUnregistered ==
    /\ \A k \in DOMAIN rooms :
        rooms[k].state = "joining" =>
            /\ JoinOf(k) \in DOMAIN reqs
            /\ reqs[JoinOf(k)].op = "join"
            /\ ~reqs[JoinOf(k)].d.called
    /\ \A d \in DOMAIN reqs :
        (reqs[d].op = "join" /\ reqs[d].d.how = "errback") =>
            ~\E k \in DOMAIN rooms : JoinOf(k) = d

\* The operations that return the deferred of an iq request
QueryOps ==
    {"configure", "getConfigureForm", "register", "getRegisterForm",
     "getMemberList", "ban", "kick"}

\* C22: every operation that returns a deferred, the iq operations
\* included, is armed with the 30-unit timeout: once 30 units have passed
\* since the request was sent and no response has been delivered, its
\* deferred has failed with the timeout error.
C22_EveryRequestTimesOut ==
    \A d \in DOMAIN reqs :
        (/\ reqs[d].op \in QueryOps \cup {"join"}
         /\ reqs[d].age >= DEFER_TIMEOUT
         /\ ~reqs[d].heard
         /\ reqs[d].d.how # "callback") => Failed(d, TimeoutError)

\* Request d has been failed by its timer
TimedOut(d) == reqs[d].call = "called" /\ Failed(d, TimeoutError)

\* C23: when the timer of a pending request expires before any match, its
\* one-time observer is removed: a matching presence delivered after a join
\* timed out does not set the room's state to "joined" and does not touch
\* the failed deferred.
C23_LateStep(h, prs) ==
    \A d \in DOMAIN reqs :
        (/\ reqs[d].h = h
         /\ reqs[d].op = "join"
         /\ TimedOut(d)
         /\ prs.from = reqs[d].key) =>
            /\ reqs'[d].d = reqs[d].d
            /\ reqs'[d].fired = reqs[d].fired
            /\ \A k \in DOMAIN rooms :
                   (rooms[k].obj = d /\ rooms[k].state = "joining") =>
                       (k \in DOMAIN rooms' /\ rooms'[k].state = "joining")

C23_LateReplyIgnored ==
    [][\A h \in Handlers, prs \in InPresences :
            C23_LateStep(h, prs) \/ ~ReceiveOp(h, prs)]_vars

\* C24: when a pending request is resolved by a matching stanza its timer
\* is cancelled in that same step: a request's timer is active only while
\* its deferred is unresolved, a passing of time never delivers anything to
\* a deferred that is already resolved, and a timer that has fired stays
\* fired (cancelling it is a no-op).
C24_TimerStep ==
    /\ \A d \in DOMAIN reqs' :
           reqs'[d].call = "active" => ~reqs'[d].d.called
    /\ \A d \in DOMAIN reqs :
           /\ (reqs[d].call = "active" /\ reqs'[d].d.called
                  /\ reqs'[d].d.result # TimeoutError) =>
                  reqs'[d].call = "cancelled"
           /\ reqs[d].call \in {"called", "cancelled"} =>
                  reqs'[d].call = reqs[d].call
           /\ reqs[d].d.called =>
                  \/ reqs'[d].d = reqs[d].d /\ reqs'[d].fired = reqs[d].fired
                  \/ ~Tick

C24_TimerCancelledOnMatch == [][C24_TimerStep]_vars

C24_Witness ==
    \E d, e \in DOMAIN reqs :
        /\ reqs[d].call = "cancelled"
        /\ reqs[d].d.called
        /\ reqs[d].d.result # TimeoutError
        /\ reqs[d].age > 0
        /\ TimedOut(e)

\* The deferreds kept in the pending set self._deferreds
PendingSet == {deferreds[i] : i \in DOMAIN deferreds}

\* C25: the pending set contains exactly the unresolved requests: an entry
\* is added when a request is sent and removed the instant its deferred is
\* resolved, by a reply or by the timeout, and no entry appears twice.
C25_PendingSetExact ==
    /\ \A d \in DOMAIN reqs :
           reqs[d].call # "none" => (d \in PendingSet <=> ~reqs[d].d.called)
    /\ Cardinality(PendingSet) = Len(deferreds)

\* C26: in join the one-time observer is registered and the timer armed
\* before the stanza is handed to the stream, so that the room's echo
\* delivered while the presence is being sent is still matched: the join
\* deferred is fulfilled with the Room and the Room is "joined".
C26_AnsweredStep(h, server, room, n) ==
    LET reply == Stanza("presence", JID(room, server, n), NoJID, "", "", "", "")
        k == JID(room, server, NoRes)
        d == Len(reqs')
    IN  \/ /\ k \in DOMAIN rooms'
           /\ rooms'[k].state = "joined"
           /\ reqs'[d].d = [called |-> TRUE, how |-> "callback",
                            result |-> RoomResult(rooms'[k])]
        \/ ~JoinAnsweredOp(h, server, room, n, reply)

C26_ObserverBeforeSend ==
    [][\A h \in Handlers, server \in Servers, room \in RoomNames, n \in OwnNicks :
            C26_AnsweredStep(h, server, room, n)]_vars

\* The requests whose timer expires in the next passing of time
Due == {d \in DOMAIN reqs :
            reqs[d].call = "active" /\ reqs[d].age + TickStep >= reqs[d].timeout}

\* C27: with several requests under way, the expiry of a timer fails
\* exactly that request's deferred with the timeout error and removes
\* exactly that entry from the pending set, wherever it sits; every other
\* entry stays in the set, in order, with its deferred and its timer as
\* they were.
C27_ExpiryStep ==
    \/ /\ \A d \in Due :
              /\ reqs'[d].d = [called |-> TRUE, how |-> "errback",
                               result |-> TimeoutError]
              /\ reqs'[d].call = "called"
              /\ reqs'[d].fired = 1
       /\ deferreds' = SelectSeq(deferreds, LAMBDA x : x \notin Due)
       /\ \A d \in DOMAIN reqs \ Due :
              /\ reqs'[d].d = reqs[d].d
              /\ reqs'[d].call = reqs[d].call
              /\ reqs'[d].fired = reqs[d].fired
       /\ raised' = << >>
    \/ ~Tick

C27_ExpiryRemovesOwnEntry == [][C27_ExpiryStep]_vars

C27_Witness ==
    \E a, e, b \in DOMAIN reqs :
        /\ a < e /\ e < b
        /\ a \in PendingSet
        /\ TimedOut(e) /\ e \notin PendingSet
        /\ b \in PendingSet
        /\ reqs[b].call = "active" /\ reqs[b].age > 0 /\ ~reqs[b].d.called
        /\ Len(deferreds) = 2

\* Request d has been resolved by a stanza that matched its observer
Matched(d) ==
    /\ reqs[d].d.called
    /\ reqs[d].d.result # TimeoutError
    /\ reqs[d].call = "cancelled"

\* C28: once a pending request has been resolved by the first stanza that
\* matches its pattern, a second stanza matching the same pattern does not
\* reach the retired request: its observer is gone, its deferred keeps its
\* result, and nothing calls it again.
C28_SecondStep(h, prs) ==
    \A d \in DOMAIN reqs :
        (reqs[d].h = h /\ Matched(d) /\ prs.from = reqs[d].key) =>
            /\ ~Observed(d)
            /\ reqs'[d].d = reqs[d].d
            /\ reqs'[d].fired = 1
            /\ reqs'[d].call = "cancelled"

C28_SecondReplyNotMatched ==
    [][\A h \in Handlers, prs \in InPresences :
            C28_SecondStep(h, prs) \/ ~ReceiveOp(h, prs)]_vars

C28_Witness ==
    /\ Len(reqs) = 1
    /\ reqs[1].op = "join"
    /\ Matched(1)
    /\ reqs[1].fired = 1
    /\ Len(hooks) = 1
    /\ hooks[1].hook = "userUpdatedStatus"
    /\ hooks[1].nick = reqs[1].nick

\* The requests that the step resolves
Resolved == {d \in DOMAIN reqs : ~reqs[d].d.called /\ reqs'[d].d.called}

\* C29: one inbound stanza resolves at most one pending request, and none
\* of another room: with two requests pending on the same room the first
\* echo resolves one and leaves the other pending.
C29_StanzaStep(h, prs) ==
    /\ Cardinality(Resolved) <= 1
    /\ \A d \in Resolved : RoomKey(reqs[d].key) = RoomKey(prs.from)

C29_OneStanzaOneRequest ==
    [][\A h \in Handlers, prs \in InPresences :
            C29_StanzaStep(h, prs) \/ ~ReceiveOp(h, prs)]_vars

\* C30: each registered room's occupant JID is
\* roomIdentifier@serviceDomain/nick for the room's current nick, and the
\* room is registered under the lower-cased bare part of that JID.
C30_OccupantJIDCurrent ==
    \A k \in DOMAIN rooms :
        /\ rooms[k].entity_id =
              JID(Lower(rooms[k].name), Lower(rooms[k].server), rooms[k].nick)
        /\ k = JID(Lower(rooms[k].entity_id.user),
                   Lower(rooms[k].entity_id.host), NoRes)

C30_Witness ==
    \E k \in DOMAIN rooms, d \in DOMAIN reqs :
        /\ rooms[k].name = "Test"
        /\ reqs[d].op = "nick"
        /\ reqs[d].room_jid = k
        /\ reqs[d].old # reqs[d].nick
        /\ rooms[k].nick = reqs[d].nick

\* C31: when an available presence from a nick not yet in the roster of a
\* registered room carries a MUC-user item with affiliation a and role r,
\* the occupant inserted into the roster (the object userJoinedRoom gets)
\* has affiliation a and role r, and none/none only without an item.
C31_ItemStep(h, prs) ==
    LET k   == RoomKey(prs.from)
        key == Lower(prs.from.resource)
    IN  ( /\ Available(prs) /\ prs.x # ""
          /\ k \in DOMAIN rooms
          /\ key \notin DOMAIN rooms[k].roster ) =>
            /\ k \in DOMAIN rooms'
            /\ key \in DOMAIN rooms'[k].roster
            /\ Calls(hooks', "userJoinedRoom") # {}
            /\ rooms'[k].roster[key].affiliation =
                  (IF prs.affiliation = "" THEN "none" ELSE prs.affiliation)
            /\ rooms'[k].roster[key].role =
                  (IF prs.role = "" THEN "none" ELSE prs.role)

C31_OccupantFromItem ==
    [][\A h \in Handlers, prs \in ItemPresences :
            C31_ItemStep(h, prs) \/ ~ReceiveOp(h, prs)]_vars

\* C32: when an available presence without a MUC status code arrives from
\* a nick already in the roster, userUpdatedStatus is invoked once,
\* userJoinedRoom is not, and afterwards the occupant's stored show and
\* status equal those of the presence; with a MUC status code
\* userUpdatedStatus is not invoked.
C32_UpdateStep(h, prs) ==
    LET k   == RoomKey(prs.from)
        key == Lower(prs.from.resource)
    IN  ( /\ Available(prs) /\ prs.x # ""
          /\ k \in DOMAIN rooms
          /\ key \in DOMAIN rooms[k].roster ) =>
            /\ Calls(hooks', "userJoinedRoom") = {}
            /\ hasMucStatus(prs) => Calls(hooks', "userUpdatedStatus") = {}
            /\ ~hasMucStatus(prs) =>
                  /\ Cardinality(Calls(hooks', "userUpdatedStatus")) = 1
                  /\ k \in DOMAIN rooms'
                  /\ key \in DOMAIN rooms'[k].roster
                  /\ rooms'[k].roster[key].show = prs.show
                  /\ rooms'[k].roster[key].status = prs.status

C32_StatusUpdateStored ==
    [][\A h \in Handlers, prs \in InPresences :
            C32_UpdateStep(h, prs) \/ ~ReceiveOp(h, prs)]_vars

\* What an operation that only sends leaves alone
SendsOnly ==
    /\ rooms' = rooms
    /\ reqs' = reqs
    /\ deferreds' = deferreds
    /\ observers' = observers
    /\ hooks' = << >>
    /\ raised' = << >>

\* C33: groupChat, chat, invite, password, subject and voice each hand
\* exactly one stanza to the stream; they and history register no observer,
\* arm no timer, add no pending request, and leave the registry and every
\* roster unchanged, whether or not the addressed room is registered.
C33_SendStep ==
    \A h \in Handlers :
        /\ (SendsOnly /\ Len(sent') = 1) \/ ~PlainSend(h)
        /\ (SendsOnly /\ Len(sent') \in {1, 2}) \/ ~SendHistory(h)

C33_SendOnlyOperations == [][C33_SendStep]_vars

C33_Witness ==
    /\ Len(sent) = 1
    /\ sent[1].name = "message"
    /\ sent[1].type = "groupchat"
    /\ sent[1].body = "hello"
    /\ sent[1].to \notin DOMAIN rooms
    /\ \E k \in DOMAIN rooms : DOMAIN rooms[k].roster # {}
    /\ \E d \in DOMAIN reqs : ~reqs[d].d.called

\* The numbers of arguments the default definitions of the message hooks
\* accept (receivedHistory's frm is optional); MUCClient defines no
\* receivedGroupChat.
HookArity(name) ==
    CASE name = "receivedSubject" -> {2}
      [] name = "receivedHistory" -> {4, 5}
      [] OTHER -> {}

\* C34: with no hook overridden, dispatching an inbound stanza from an
\* occupant of a registered room (a presence, a groupchat message with or
\* without delay, a subject message) completes without raising an error,
\* and each message hook is called with a number of arguments its default
\* definition accepts.
C34_Quiet ==
    /\ raised' = << >>
    /\ \A i \in DOMAIN hooks' :
           "args" \in DOMAIN hooks'[i] =>
               Len(hooks'[i].args) \in HookArity(hooks'[i].hook)

C34_DefaultHooksQuiet ==
    [][/\ \A h \in Handlers, msg \in InMessages :
            FromOccupant(msg) => (C34_Quiet \/ ~ReceiveMessageOp(h, msg))
       /\ \A h \in Handlers, prs \in InPresences :
            FromOccupant(prs) => (C34_Quiet \/ ~ReceiveOp(h, prs))]_vars

\* C35: every request sent through the correlator (join, nick, status,
\* leave) is eventually resolved, assuming only that armed timers
\* eventually fire: whatever stanzas arrive and whatever else is done
\* meanwhile, its deferred is eventually fulfilled or failed.
C35_EventuallyResolved ==
    \A d \in 1..MaxRequests :
        (d \in DOMAIN reqs /\ ~reqs[d].d.called)
            ~> (d \in DOMAIN reqs /\ reqs[d].d.called)

C35_Witness ==
    \E d, e \in DOMAIN reqs :
        /\ reqs[d].op = "join"
        /\ reqs[d].heard
        /\ TimedOut(d)
        /\ reqs[e].op = "leave"
        /\ reqs[e].d.how = "callback"
        /\ RoomKey(reqs[d].key) \notin DOMAIN rooms

\* The calls of hook name that the step made for room k and lower-cased
\* nick n
HookCalls(name, k, n) ==
    {i \in Calls(hooks', name) : hooks'[i].room = k /\ Lower(hooks'[i].nick) = n}

\* C36: for each bare room JID and each lower-cased nick the hooks
\* userJoinedRoom and userLeftRoom strictly alternate, starting with
\* userJoinedRoom, also when join is called again for a registered room.
\* The roster of the registered room holds the nicks whose last hook was
\* userJoinedRoom, so the hooks alternate exactly when every step changes
\* the nick's presence in the roster together with the matching hook:
\* userJoinedRoom when it enters, userLeftRoom when it goes, none otherwise.
C36_HookStep ==
    \A k \in BareJIDs, n \in {Lower(x) : x \in FromNicks} :
        LET was == k \in DOMAIN rooms /\ n \in DOMAIN rooms[k].roster
            is  == k \in DOMAIN rooms' /\ n \in DOMAIN rooms'[k].roster
        IN  /\ Cardinality(HookCalls("userJoinedRoom", k, n)) =
                  (IF ~was /\ is THEN 1 ELSE 0)
            /\ Cardinality(HookCalls("userLeftRoom", k, n)) =
                  (IF was /\ ~is THEN 1 ELSE 0)

C36_HooksAlternate == [][C36_HookStep]_vars

\* C37: whenever a join, nick or status deferred is fulfilled, the value
\* is a Room that is in the registry under the requested bare JID at that
\* moment (before or after the other observers of the same stanza have
\* run); it is never fulfilled with an absent value, also when a leave of
\* the same room completed while the request was pending.
C37_FulfilStep ==
    \A d \in DOMAIN reqs :
        ( /\ reqs[d].op \in {"join", "nick", "status"}
          /\ ~reqs[d].d.called
          /\ reqs'[d].d.how = "callback" ) =>
            LET k == RoomKey(reqs[d].key)
                v == reqs'[d].d.result
            IN  /\ v.kind = "Room"
                /\ \/ k \in DOMAIN rooms' /\ rooms'[k].obj = v.obj
                   \/ k \in DOMAIN rooms /\ rooms[k].obj = v.obj

C37_FulfilledWithRegisteredRoom == [][C37_FulfilStep]_vars

====
